---------------------------- MODULE Spec2Model ----------------------------
(***************************************************************************)
(* Medallion pipeline (backend/app/medallion_pipeline.py): pattern-based   *)
(* entity extraction (bronze -> silver), profile aggregation (silver ->    *)
(* gold) and the transformation log of MedallionTransformer.               *)
(*                                                                         *)
(* Text is a sequence of one-character strings, so that the regular        *)
(* expressions and substring tests of the code are computed, character by  *)
(* character, as Python's re module computes them.  Scores (floats in      *)
(* [0,1] in the code) are integers in hundredths: 0.9 is 90.               *)
(***************************************************************************)
EXTENDS Integers, Sequences, FiniteSets, TLC

VARIABLES
    pc,                  \* position of the caller: "start", "extracted", "aggregated"
    doc,                 \* raw_content of the BronzeDocument last extracted, or NoDoc
    entities,            \* the entity list in the caller's hand
    demographics,        \* the demographics dict last passed to silver_to_gold_patient
    profile,             \* the GoldPatientProfile last returned, or NoProfile
    transformation_log,  \* MedallionTransformer.transformation_log
    clock,               \* the value datetime.now() returns next
    silver_record,       \* the structured silver record last constructed, or NoRecord
    calls,               \* the calls made on the transformer: arguments and result
    stats,               \* what get_pipeline_stats returned last, or NoStats
    mock_storage,        \* main.mock_storage: the stores of the API server
    response,            \* the response of the last process_document request
    threads              \* the calls in progress in parallel threads

vars ==
    <<pc, doc, entities, demographics, profile, transformation_log, clock,
      silver_record, calls, stats, mock_storage, response, threads>>

---------------------------------------------------------------------------
(* Characters and strings *)

Digit == {"0","1","2","3","4","5","6","7","8","9"}

Space == {" ", "\t", "\n"}

\* the lower-case letter of each upper-case letter
LowerOf ==
    [ A |-> "a", B |-> "b", C |-> "c", D |-> "d", E |-> "e", F |-> "f", G |-> "g",
      H |-> "h", I |-> "i", J |-> "j", K |-> "k", L |-> "l", M |-> "m", N |-> "n",
      O |-> "o", P |-> "p", Q |-> "q", R |-> "r", S |-> "s", T |-> "t", U |-> "u",
      V |-> "v", W |-> "w", X |-> "x", Y |-> "y", Z |-> "z" ]

\* str.lower(), one character
LowerChar(c) == IF c \in DOMAIN LowerOf THEN LowerOf[c] ELSE c

\* str.lower()
Lower(s) == <<>> \o [i \in 1..Len(s) |-> LowerChar(s[i])]

\* Python's  needle in s
Contains(s, needle) ==
    \E i \in 1..(Len(s) - Len(needle) + 1) :
        \A j \in 1..Len(needle) : s[i + j - 1] = needle[j]

\* str.strip()
RECURSIVE LStrip(_)
LStrip(s) == IF s # <<>> /\ Head(s) \in Space THEN LStrip(Tail(s)) ELSE s

RECURSIVE RStrip(_)
RStrip(s) ==
    IF s # <<>> /\ s[Len(s)] \in Space THEN RStrip(SubSeq(s, 1, Len(s) - 1)) ELSE s

Strip(s) == RStrip(LStrip(s))

---------------------------------------------------------------------------
(* Regular expressions, as re.finditer / re.search evaluate them:          *)
(* leftmost match, greedy quantifiers, backtracking.  A pattern is a       *)
(* sequence of atoms; an atom matches characters of a class (once,         *)
(* optionally, zero or more or one or more times) or is an optional group  *)
(* of atoms.  grp is the number of the capturing group the atom is in.     *)

Atom(kind, cls, grp) == [kind |-> kind, cls |-> cls, grp |-> grp, sub |-> <<>>]

\* a literal string
Lit(s, grp) == [i \in 1..Len(s) |-> Atom("one", {s[i]}, grp)]

\* ( ... )?
OptGroup(atoms) == <<[kind |-> "optgrp", cls |-> {}, grp |-> 0, sub |-> atoms]>>

NoMatch == [ok |-> FALSE, end |-> 0, groups |-> <<>>]

NoGroups == <<<<>>, <<>>>>

\* the number of characters of cls that txt holds from position pos on
RECURSIVE RunLen(_, _, _)
RunLen(cls, txt, pos) ==
    IF pos <= Len(txt) /\ txt[pos] \in cls THEN 1 + RunLen(cls, txt, pos + 1) ELSE 0

Min(a, b) == IF a <= b THEN a ELSE b

\* the match of atoms at position pos, or NoMatch; groups[g] is the text of
\* capturing group g, <<>> when the group took no part (None in Python)
RECURSIVE MatchHere(_, _, _, _), TryCount(_, _, _, _, _)
MatchHere(atoms, txt, pos, groups) ==
    IF atoms = <<>> THEN [ok |-> TRUE, end |-> pos, groups |-> groups]
    ELSE LET a == Head(atoms)
             rest == Tail(atoms)
         IN  IF a.kind = "optgrp"
             THEN LET r == MatchHere(a.sub \o rest, txt, pos, groups)
                  IN  IF r.ok THEN r ELSE MatchHere(rest, txt, pos, groups)
             ELSE LET run == RunLen(a.cls, txt, pos)
                      most == IF a.kind \in {"one", "opt"} THEN Min(run, 1) ELSE run
                  IN  TryCount(atoms, txt, pos, groups, most)

\* greedy: the first atom takes n characters; on failure it gives one back
TryCount(atoms, txt, pos, groups, n) ==
    LET a == Head(atoms)
        least == IF a.kind \in {"one", "plus"} THEN 1 ELSE 0
    IN  IF n < least THEN NoMatch
        ELSE LET taken == SubSeq(txt, pos, pos + n - 1)
                 g == IF a.grp = 0 THEN groups
                      ELSE [groups EXCEPT ![a.grp] = @ \o taken]
                 r == MatchHere(Tail(atoms), txt, pos + n, g)
             IN  IF r.ok THEN r ELSE TryCount(atoms, txt, pos, groups, n - 1)

\* the positions from pos on at which atoms match
MatchPositions(atoms, txt, pos) ==
    { p \in pos..(Len(txt) + 1) : MatchHere(atoms, txt, p, NoGroups).ok }

\* the least element of a non-empty set of numbers
Least(S) == CHOOSE p \in S : \A q \in S : p <= q

\* re.finditer(pattern, txt): the non-overlapping matches, left to right;
\* each is [start, end, groups], the match being txt[start .. end-1]
RECURSIVE FindIter(_, _, _)
FindIter(atoms, txt, pos) ==
    LET at == MatchPositions(atoms, txt, pos)
    IN  IF at = {} THEN <<>>
        ELSE LET start == Least(at)
                 r == MatchHere(atoms, txt, start, NoGroups)
             IN  <<[start |-> start, end |-> r.end, groups |-> r.groups]>>
                 \o FindIter(atoms, txt, IF r.end > start THEN r.end ELSE start + 1)

\* re.search(pattern, txt): the leftmost match, or NoMatch
Search(atoms, txt, pos) ==
    LET at == MatchPositions(atoms, txt, pos)
    IN  IF at = {} THEN NoMatch ELSE MatchHere(atoms, txt, Least(at), NoGroups)

\* match.group(0)
Group0(txt, m) == SubSeq(txt, m.start, m.end - 1)

\* \s+ , \s* , \d+ , \d* , x?
Spaces1 == <<Atom("plus", Space, 0)>>
Spaces0 == <<Atom("star", Space, 0)>>
Digits1(grp) == <<Atom("plus", Digit, grp)>>
Digits0(grp) == <<Atom("star", Digit, grp)>>
Opt(c, grp) == <<Atom("opt", {c}, grp)>>

---------------------------------------------------------------------------
(* Numbers read from text.  float("8.2") is [num |-> 82, den |-> 10]. *)

DigitValue(c) == CHOOSE v \in 0..9 : <<"0","1","2","3","4","5","6","7","8","9">>[v + 1] = c

RECURSIVE ParseFloat(_)
ParseFloat(s) ==
    IF s = <<>> THEN [num |-> 0, den |-> 1, frac |-> FALSE]
    ELSE LET p == ParseFloat(SubSeq(s, 1, Len(s) - 1))
             c == s[Len(s)]
         IN  IF c = "." THEN [p EXCEPT !.frac = TRUE]
             ELSE [num |-> 10 * p.num + DigitValue(c),
                   den |-> IF p.frac THEN 10 * p.den ELSE p.den,
                   frac |-> p.frac]

\* value < k , value >= k  for a parsed float and an integer k
Below(v, k) == v.num < k * v.den
AtLeast(v, k) == v.num >= k * v.den

---------------------------------------------------------------------------
(* Silver layer: SilverClinicalEntity *)

None == "None"

\* truth value of an optional string (None and "" are false)
Truthy(x) == x # None /\ x # ""

\* variant of CalculateQualityScore: the sum is not capped at 1.0
CalculateQualityScore_Uncapped(confidence_score, normalized_code, temporal_info) ==
    confidence_score
    + (IF Truthy(normalized_code) THEN 20 ELSE 0)
    + (IF Truthy(temporal_info) THEN 10 ELSE 0)

\* SilverClinicalEntity._calculate_quality_score, in hundredths
CalculateQualityScore(confidence_score, normalized_code, temporal_info) ==
    LET base_score == confidence_score
                      + (IF Truthy(normalized_code) THEN 20 ELSE 0)
                      + (IF Truthy(temporal_info) THEN 10 ELSE 0)
    IN  Min(base_score, 100)

\* SilverClinicalEntity(...) under @silver_layer: the quality score is
\* computed once, at construction, and stored in _quality_score
SilverClinicalEntity(entity_type, entity_value, confidence_score, extracted_from, normalized_code, temporal_info) ==
    [entity_type |-> entity_type,
     entity_value |-> entity_value,
     confidence_score |-> confidence_score,
     extracted_from |-> extracted_from,
     normalized_code |-> normalized_code,
     temporal_info |-> temporal_info,
     quality_score |-> CalculateQualityScore(confidence_score, normalized_code,
                                              temporal_info)]

---------------------------------------------------------------------------
(* Silver layer: the structured records SilverLabResult, SilverMedication  *)
(* and SilverDiagnosis.  Their scores are fractions [num, den]: the        *)
(* medication score is a number of thirds of 0.7.                          *)

\* SilverLabResult._calculate_quality_score
LabResultQualityScore(unit, reference_range, abnormal_flag, loinc_code) ==
    LET score == 60
                 + (IF Truthy(unit) THEN 10 ELSE 0)
                 + (IF Truthy(reference_range) THEN 10 ELSE 0)
                 + (IF Truthy(abnormal_flag) THEN 10 ELSE 0)
                 + (IF Truthy(loinc_code) THEN 20 ELSE 0)
    IN  [num |-> score, den |-> 100]

\* SilverLabResult(...) under @silver_layer
SilverLabResult(test_name, value, unit, reference_range, test_date, abnormal_flag, loinc_code) ==
    [kind |-> "SilverLabResult",
     test_name |-> test_name,
     value |-> value,
     unit |-> unit,
     reference_range |-> reference_range,
     test_date |-> test_date,
     abnormal_flag |-> abnormal_flag,
     loinc_code |-> loinc_code,
     quality_score |-> LabResultQualityScore(unit, reference_range, abnormal_flag,
                                              loinc_code)]

\* sum(1 for field in fields if field)
CountPresent(fields) == Cardinality({i \in 1..Len(fields) : Truthy(fields[i])})

\* SilverMedication._calculate_quality_score:
\* (present_required / 3) * 0.7 + 0.1 * present_optional
MedicationQualityScore(medication_name, dosage, frequency, route, start_date, rxnorm_code) ==
    LET required_fields == <<medication_name, dosage, frequency>>
        present_required == CountPresent(required_fields)
        present_optional == CountPresent(<<route, start_date, rxnorm_code>>)
    IN  [num |-> present_required * 70 + present_optional * 10 * Len(required_fields),
         den |-> 100 * Len(required_fields)]

\* SilverMedication(...) under @silver_layer
SilverMedication(medication_name, dosage, frequency, route, start_date, end_date, rxnorm_code) ==
    [kind |-> "SilverMedication",
     medication_name |-> medication_name,
     dosage |-> dosage,
     frequency |-> frequency,
     route |-> route,
     start_date |-> start_date,
     end_date |-> end_date,
     rxnorm_code |-> rxnorm_code,
     quality_score |-> MedicationQualityScore(medication_name, dosage, frequency, route,
                                               start_date, rxnorm_code)]

\* SilverDiagnosis._calculate_quality_score; confidence_score in hundredths
DiagnosisQualityScore(confidence_score, icd10_code, diagnosis_date) ==
    [num |-> confidence_score * 60
             + (IF Truthy(icd10_code) THEN 3000 ELSE 0)
             + (IF Truthy(diagnosis_date) THEN 1000 ELSE 0),
     den |-> 10000]

\* SilverDiagnosis(...) under @silver_layer
SilverDiagnosis(diagnosis_text, icd10_code, diagnosis_date, diagnosis_type, confidence_score) ==
    [kind |-> "SilverDiagnosis",
     diagnosis_text |-> diagnosis_text,
     icd10_code |-> icd10_code,
     diagnosis_date |-> diagnosis_date,
     diagnosis_type |-> diagnosis_type,
     confidence_score |-> confidence_score,
     quality_score |-> DiagnosisQualityScore(confidence_score, icd10_code, diagnosis_date)]

---------------------------------------------------------------------------
(* Code tables *)

RxnormCodes ==
    { <<<<"m","e","t","f","o","r","m","i","n">>, "6809">>, <<<<"l","i","s","i","n","o","p","r","i","l">>, "29046">>,
      <<<<"a","t","o","r","v","a","s","t","a","t","i","n">>, "83367">>, <<<<"a","m","l","o","d","i","p","i","n","e">>, "17767">> }

LoincCodes ==
    { <<<<"h","e","m","o","g","l","o","b","i","n","_","a","1","c">>, "4548-4">>, <<<<"g","l","u","c","o","s","e">>, "2345-7">>,
      <<<<"c","r","e","a","t","i","n","i","n","e">>, "2160-0">>, <<<<"e","g","f","r">>, "33914-3">> }

\* dict.get(key): the value, or None
DictLookup(table, key) ==
    IF \E p \in table : p[1] = key
    THEN (CHOOSE p \in table : p[1] = key)[2]
    ELSE None

GetRxnormCode(medication) == DictLookup(RxnormCodes, Lower(medication))

GetLoincCode(lab_name) == DictLookup(LoincCodes, lab_name)

---------------------------------------------------------------------------
(* Entity extraction (bronze -> silver) *)

MedNames ==
    << <<"m","e","t","f","o","r","m","i","n">>, <<"l","i","s","i","n","o","p","r","i","l">>, <<"a","t","o","r","v","a","s","t","a","t","i","n">>, <<"a","m","l","o","d","i","p","i","n","e">>,
       <<"g","l","i","p","i","z","i","d","e">>, <<"l","o","s","a","r","t","a","n">>, <<"s","e","m","a","g","l","u","t","i","d","e">> >>

\* variant of MedPattern: the dosage group is left out of the pattern
MedPattern_NoDosage(name) == Lit(name, 1) \o Spaces1

\* r"(<name>)\s+(\d+\s*mg)?"
MedPattern(name) ==
    Lit(name, 1) \o Spaces1
    \o OptGroup(Digits1(2) \o <<Atom("star", Space, 2)>> \o Lit(<<"m","g">>, 2))

MedConfidence == 90

\* the entity of one medication match
MedicationEntity(text, m) ==
    LET med_name == m.groups[1]
        dosage == m.groups[2]
    IN  SilverClinicalEntity("medication",
            IF dosage # <<>> THEN Strip(med_name \o <<" ">> \o dosage) ELSE med_name,
            MedConfidence, Group0(text, m), GetRxnormCode(med_name), None)

RECURSIVE ExtractMedicationsFrom(_, _)
ExtractMedicationsFrom(text, k) ==
    IF k > Len(MedNames) THEN <<>>
    ELSE LET matches == FindIter(MedPattern(MedNames[k]), Lower(text), 1)
         IN  [i \in 1..Len(matches) |-> MedicationEntity(Lower(text), matches[i])]
             \o ExtractMedicationsFrom(text, k + 1)

ExtractMedications(text) == ExtractMedicationsFrom(text, 1)

DiagnosisPatterns ==
    << [pattern |-> Lit(<<"t","y","p","e">>, 0) \o Spaces1 \o Lit(<<"2">>, 0) \o Spaces1
                    \o Lit(<<"d","i","a","b","e","t","e","s">>, 0),
        icd_code |-> "E11.9", standard_name |-> <<"T","y","p","e"," ","2"," ","D","i","a","b","e","t","e","s">>],
       [pattern |-> Lit(<<"h","y","p","e","r","t","e","n","s","i","o","n">>, 0),
        icd_code |-> "I10", standard_name |-> <<"E","s","s","e","n","t","i","a","l"," ","H","y","p","e","r","t","e","n","s","i","o","n">>],
       [pattern |-> Lit(<<"h","y","p","e","r","l","i","p","i","d","e","m","i","a">>, 0),
        icd_code |-> "E78.5", standard_name |-> <<"H","y","p","e","r","l","i","p","i","d","e","m","i","a">>],
       [pattern |-> Lit(<<"c","h","r","o","n","i","c">>, 0) \o Spaces1 \o Lit(<<"k","i","d","n","e","y">>, 0) \o Spaces1
                    \o Lit(<<"d","i","s","e","a","s","e">>, 0),
        icd_code |-> "N18.3", standard_name |-> <<"C","h","r","o","n","i","c"," ","k","i","d","n","e","y"," ","d","i","s","e","a","s","e">>],
       [pattern |-> Lit(<<"o","b","e","s","i","t","y">>, 0),
        icd_code |-> "E66.9", standard_name |-> <<"O","b","e","s","i","t","y">>] >>

DiagConfidence == 95

\* variant of ExtractDiagnosesFrom: the entity value is the matched wording
RECURSIVE ExtractDiagnosesFrom_MatchedWording(_, _)
ExtractDiagnosesFrom_MatchedWording(text, k) ==
    IF k > Len(DiagnosisPatterns) THEN <<>>
    ELSE LET rule == DiagnosisPatterns[k]
             matches == FindIter(rule.pattern, Lower(text), 1)
         IN  [i \in 1..Len(matches) |->
                 SilverClinicalEntity("diagnosis", Group0(Lower(text), matches[i]),
                                      DiagConfidence, Group0(Lower(text), matches[i]),
                                      rule.icd_code, None)]
             \o ExtractDiagnosesFrom_MatchedWording(text, k + 1)

RECURSIVE ExtractDiagnosesFrom(_, _)
ExtractDiagnosesFrom(text, k) ==
    IF k > Len(DiagnosisPatterns) THEN <<>>
    ELSE LET rule == DiagnosisPatterns[k]
             matches == FindIter(rule.pattern, Lower(text), 1)
         IN  [i \in 1..Len(matches) |->
                 SilverClinicalEntity("diagnosis", rule.standard_name, DiagConfidence,
                                      Group0(Lower(text), matches[i]), rule.icd_code, None)]
             \o ExtractDiagnosesFrom(text, k + 1)

ExtractDiagnoses(text) == ExtractDiagnosesFrom(text, 1)

\* label:?\s*
Label(s) == Lit(s, 0) \o Opt(":", 0) \o Spaces0

\* (\d+\.?\d*)
Decimal(grp) == Digits1(grp) \o Opt(".", grp) \o Digits0(grp)

LabPatterns ==
    << [pattern |-> Label(<<"a","1","c">>) \o Decimal(1) \o Spaces0 \o Lit(<<"%">>, 0),
        lab_name |-> <<"h","e","m","o","g","l","o","b","i","n","_","a","1","c">>],
       [pattern |-> Label(<<"g","l","u","c","o","s","e">>) \o Digits1(1) \o Spaces0 \o Lit(<<"m","g","/","d","l">>, 0),
        lab_name |-> <<"g","l","u","c","o","s","e">>],
       [pattern |-> Label(<<"c","r","e","a","t","i","n","i","n","e">>) \o Decimal(1) \o Spaces0 \o Lit(<<"m","g","/","d","l">>, 0),
        lab_name |-> <<"c","r","e","a","t","i","n","i","n","e">>],
       [pattern |-> Label(<<"e","g","f","r">>) \o Digits1(1), lab_name |-> <<"e","g","f","r">>],
       [pattern |-> Label(<<"l","d","l">>) \o Digits1(1), lab_name |-> <<"l","d","l","_","c","h","o","l","e","s","t","e","r","o","l">>],
       [pattern |-> Label(<<"h","d","l">>) \o Digits1(1), lab_name |-> <<"h","d","l","_","c","h","o","l","e","s","t","e","r","o","l">>] >>

LabConfidence == 85

RECURSIVE ExtractLabValuesFrom(_, _)
ExtractLabValuesFrom(text, k) ==
    IF k > Len(LabPatterns) THEN <<>>
    ELSE LET rule == LabPatterns[k]
             matches == FindIter(rule.pattern, Lower(text), 1)
         IN  [i \in 1..Len(matches) |->
                 SilverClinicalEntity("lab_value",
                     rule.lab_name \o <<":", " ">> \o matches[i].groups[1],
                     LabConfidence, Group0(Lower(text), matches[i]),
                     GetLoincCode(rule.lab_name), None)]
             \o ExtractLabValuesFrom(text, k + 1)

ExtractLabValues(text) == ExtractLabValuesFrom(text, 1)

\* variant of ExtractEntities: the lab values are extracted first
ExtractEntities_LabValuesFirst(text) ==
    ExtractLabValues(text) \o ExtractMedications(text) \o ExtractDiagnoses(text)

\* variant of ExtractEntities: the medications are added twice
ExtractEntities_MedicationsTwice(text) ==
    ExtractMedications(text) \o ExtractMedications(text) \o ExtractDiagnoses(text)
    \o ExtractLabValues(text)

\* the list bronze_to_silver_document returns
ExtractEntities(text) ==
    ExtractMedications(text) \o ExtractDiagnoses(text) \o ExtractLabValues(text)

---------------------------------------------------------------------------
(* Gold layer: GoldPatientProfile *)

\* no profile has been returned yet
NoProfile == [patient_id |-> "none"]

\* bool(x) of a str and of an int
BoolStr(x) == x # ""

BoolInt(x) == x # 0

\* completeness of _calculate_business_value, in hundredths: the share of
\* the five fields that are true
Completeness(p) ==
    LET present == << p.primary_conditions # <<>>,
                      p.current_medications # <<>>,
                      BoolStr(p.geographic_location),
                      BoolInt(p.age_years),
                      BoolStr(p.sex) >>
    IN  (100 * Cardinality({i \in 1..5 : present[i]})) \div 5

\* variant of Richness: the sum is not capped at 1.0
Richness_Uncapped(p) ==
    Len(p.primary_conditions) * 20
    + Len(p.comorbidities) * 10
    + Len(p.current_medications) * 10

\* richness of _calculate_business_value, in hundredths
Richness(p) ==
    Min(Len(p.primary_conditions) * 20
        + Len(p.comorbidities) * 10
        + Len(p.current_medications) * 10, 100)

\* GoldPatientProfile._calculate_business_value, in hundredths
CalculateBusinessValue(p) == (Completeness(p) * 70 + Richness(p) * 30) \div 100

\* GoldPatientProfile(...) under @gold_layer: _business_value is computed at
\* construction
GoldPatientProfile(patient_id, age_years, sex, primary_conditions, comorbidities, current_medications, contraindications, geographic_location, trial_eligibility_factors) ==
    LET p == [patient_id |-> patient_id,
              age_years |-> age_years,
              sex |-> sex,
              primary_conditions |-> primary_conditions,
              comorbidities |-> comorbidities,
              current_medications |-> current_medications,
              contraindications |-> contraindications,
              geographic_location |-> geographic_location,
              trial_eligibility_factors |-> trial_eligibility_factors]
    IN  [patient_id |-> patient_id,
         age_years |-> age_years,
         sex |-> sex,
         primary_conditions |-> primary_conditions,
         comorbidities |-> comorbidities,
         current_medications |-> current_medications,
         contraindications |-> contraindications,
         geographic_location |-> geographic_location,
         trial_eligibility_factors |-> trial_eligibility_factors,
         business_value |-> CalculateBusinessValue(p)]

---------------------------------------------------------------------------
(* Clinical assessments *)

\* [e.entity_value for e in entities if e.entity_type == t]
ValuesOfType(ents, t) ==
    LET OfType(e) == e.entity_type = t
        sel == SelectSeq(ents, OfType)
    IN  [i \in 1..Len(sel) |-> sel[i].entity_value]

\* the level of an A1C value
DiabetesLevel(a1c_value) ==
    IF Below(a1c_value, 7) THEN "well_controlled"
    ELSE IF Below(a1c_value, 8) THEN "moderately_controlled"
    ELSE "poorly_controlled"

AssessDiabetesControl(ents) ==
    LET IsA1c(e) == Contains(e.entity_value, <<"h","e","m","o","g","l","o","b","i","n","_","a","1","c">>)
        a1c_entities == SelectSeq(ents, IsA1c)
    IN  IF a1c_entities = <<>> THEN "unknown"
        ELSE LET a1c_text == a1c_entities[1].entity_value
                 m == Search(Decimal(1), a1c_text, 1)
             IN  IF ~m.ok THEN "unknown"
                 ELSE DiabetesLevel(ParseFloat(m.groups[1]))

\* variant of RenalLevel: every value from 60 on counts as normal
RenalLevel_NoMildTier(egfr_value) ==
    IF AtLeast(egfr_value, 60) THEN "normal"
    ELSE IF AtLeast(egfr_value, 30) THEN "moderate_impairment"
    ELSE "severe_impairment"

\* the level of an eGFR value
RenalLevel(egfr_value) ==
    IF AtLeast(egfr_value, 90) THEN "normal"
    ELSE IF AtLeast(egfr_value, 60) THEN "mild_impairment"
    ELSE IF AtLeast(egfr_value, 30) THEN "moderate_impairment"
    ELSE "severe_impairment"

AssessRenalFunction(ents) ==
    LET IsEgfr(e) == Contains(e.entity_value, <<"e","g","f","r">>)
        egfr_entities == SelectSeq(ents, IsEgfr)
    IN  IF egfr_entities = <<>> THEN "unknown"
        ELSE LET egfr_text == egfr_entities[1].entity_value
                 m == Search(Digits1(1), egfr_text, 1)
             IN  IF ~m.ok THEN "unknown"
                 ELSE RenalLevel(ParseFloat(m.groups[1]))

\* variant of DiagnosisMentions: the entity type is not tested
DiagnosisMentions_AnyType(ents, term) ==
    \E i \in 1..Len(ents) : Contains(Lower(ents[i].entity_value), term)

\* any(term in e.entity_value.lower() for e in entities if e.entity_type == "diagnosis")
DiagnosisMentions(ents, term) ==
    \E i \in 1..Len(ents) :
        ents[i].entity_type = "diagnosis" /\ Contains(Lower(ents[i].entity_value), term)

\* the risk level of a list of risk factors
RiskLevel(risk_factors) ==
    IF Len(risk_factors) >= 3 THEN "high"
    ELSE IF Len(risk_factors) >= 2 THEN "moderate"
    ELSE IF Len(risk_factors) >= 1 THEN "low"
    ELSE "minimal"

AssessCardiacRisk(ents) ==
    RiskLevel(
        (IF DiagnosisMentions(ents, <<"h","y","p","e","r","t","e","n","s","i","o","n">>) THEN <<"hypertension">> ELSE <<>>)
        \o (IF DiagnosisMentions(ents, <<"h","y","p","e","r","l","i","p","i","d","e","m","i","a">>) THEN <<"hyperlipidemia">> ELSE <<>>)
        \o (IF DiagnosisMentions(ents, <<"d","i","a","b","e","t","e","s">>) THEN <<"diabetes">> ELSE <<>>))

---------------------------------------------------------------------------
(* Aggregation (silver -> gold) *)

\* dict.get(key, default)
DictGet(d, key, default) == IF key \in DOMAIN d THEN d[key] ELSE default

\* diagnoses[:3]
PrimaryConditions(diagnoses) == SubSeq(diagnoses, 1, Min(3, Len(diagnoses)))

\* variant of Comorbidities: the slice starts one element late
Comorbidities_OffByOne(diagnoses) == SubSeq(diagnoses, 5, Len(diagnoses))

\* diagnoses[3:]
Comorbidities(diagnoses) == SubSeq(diagnoses, 4, Len(diagnoses))

\* a list without its repetitions
RECURSIVE Distinct(_)
Distinct(seq) ==
    IF seq = <<>> THEN <<>>
    ELSE LET rest == Distinct(SubSeq(seq, 1, Len(seq) - 1))
             last == seq[Len(seq)]
         IN  IF \E i \in 1..Len(rest) : rest[i] = last THEN rest ELSE Append(rest, last)

\* variant of Aggregate: a medication is listed once
Aggregate_DistinctMedications(ents) ==
    LET diagnoses == ValuesOfType(ents, "diagnosis")
    IN  [medications |-> Distinct(ValuesOfType(ents, "medication")),
         primary_conditions |-> PrimaryConditions(diagnoses),
         comorbidities |-> Comorbidities(diagnoses),
         contraindications |-> ValuesOfType(ents, "contraindication"),
         eligibility_factors |->
             [diabetes_controlled |-> AssessDiabetesControl(ents),
              renal_function |-> AssessRenalFunction(ents),
              cardiac_risk |-> AssessCardiacRisk(ents)]]

\* variant of Aggregate: the contraindications are left empty
Aggregate_NoContraindications(ents) ==
    LET diagnoses == ValuesOfType(ents, "diagnosis")
    IN  [medications |-> ValuesOfType(ents, "medication"),
         primary_conditions |-> PrimaryConditions(diagnoses),
         comorbidities |-> Comorbidities(diagnoses),
         contraindications |-> <<>>,
         eligibility_factors |->
             [diabetes_controlled |-> AssessDiabetesControl(ents),
              renal_function |-> AssessRenalFunction(ents),
              cardiac_risk |-> AssessCardiacRisk(ents)]]

\* the lists and the assessments silver_to_gold_patient derives from the
\* entities, before it reads the demographics
Aggregate(ents) ==
    LET diagnoses == ValuesOfType(ents, "diagnosis")
    IN  [medications |-> ValuesOfType(ents, "medication"),
         primary_conditions |-> PrimaryConditions(diagnoses),
         comorbidities |-> Comorbidities(diagnoses),
         contraindications |-> ValuesOfType(ents, "contraindication"),
         eligibility_factors |->
             [diabetes_controlled |-> AssessDiabetesControl(ents),
              renal_function |-> AssessRenalFunction(ents),
              cardiac_risk |-> AssessCardiacRisk(ents)]]

\* the profile silver_to_gold_patient constructs from them
\* variant of BuildProfile: the medications of the profile returned before
\* are kept
BuildProfile_KeepsMedications(patient_id, agg, demo) ==
    GoldPatientProfile(patient_id,
                       DictGet(demo, "age", 0),
                       DictGet(demo, "sex", "unknown"),
                       agg.primary_conditions, agg.comorbidities,
                       (IF profile = NoProfile THEN <<>> ELSE profile.current_medications)
                           \o agg.medications,
                       agg.contraindications,
                       DictGet(demo, "location", "unknown"),
                       agg.eligibility_factors)

\* variant of BuildProfile: the sex is read without a default
BuildProfile_NoSexDefault(patient_id, agg, demo) ==
    GoldPatientProfile(patient_id,
                       DictGet(demo, "age", 0),
                       DictGet(demo, "sex", None),
                       agg.primary_conditions, agg.comorbidities, agg.medications,
                       agg.contraindications,
                       DictGet(demo, "location", "unknown"),
                       agg.eligibility_factors)

BuildProfile(patient_id, agg, demo) ==
    GoldPatientProfile(patient_id,
                       DictGet(demo, "age", 0),
                       DictGet(demo, "sex", "unknown"),
                       agg.primary_conditions, agg.comorbidities, agg.medications,
                       agg.contraindications,
                       DictGet(demo, "location", "unknown"),
                       agg.eligibility_factors)

---------------------------------------------------------------------------
(* Transformation log *)

\* variant of LogTransformation: the log is started anew with the entry
LogTransformation_Overwrites(log, now, stage, entity_id, metric) ==
    <<[timestamp |-> now, stage |-> stage, entity_id |-> entity_id, metric |-> metric]>>

\* variant of LogTransformation: the entry is put in front of the log
LogTransformation_Prepends(log, now, stage, entity_id, metric) ==
    <<[timestamp |-> now, stage |-> stage, entity_id |-> entity_id, metric |-> metric]>>
    \o log

\* variant of LogTransformation: the entry is stored at the last position
\* the list had, as an unsynchronized read-modify-write would store it
LogTransformation_LostUpdate(log, now, stage, entity_id, metric) ==
    IF log = <<>>
    THEN <<[timestamp |-> now, stage |-> stage, entity_id |-> entity_id,
            metric |-> metric]>>
    ELSE [log EXCEPT ![Len(log)] = [timestamp |-> now, stage |-> stage,
                                    entity_id |-> entity_id, metric |-> metric]]

\* the log after _log_transformation(stage, entity_id, metric) at time now
LogTransformation(log, now, stage, entity_id, metric) ==
    Append(log, [timestamp |-> now, stage |-> stage,
                 entity_id |-> entity_id, metric |-> metric])

\* one round of the loop of get_pipeline_stats: the stages map after the
\* entry of a stage has been counted
CountStage(stages, stage) ==
    [s \in DOMAIN stages \cup {stage} |->
        IF s = stage
        THEN [count |-> (IF s \in DOMAIN stages THEN stages[s].count ELSE 0) + 1,
              avg_metric |-> 0]
        ELSE stages[s]]

\* the stage names of a log
StageNames(log) == { log[i].stage : i \in 1..Len(log) }

\* variant of GetPipelineStats: the timestamp is that of the first entry
GetPipelineStats_FirstTimestamp(log) ==
    IF log = <<>> THEN [total_transformations |-> 0]
    ELSE [total_transformations |-> Len(log),
          stages |-> [s \in StageNames(log) |->
                         [count |-> Cardinality({i \in 1..Len(log) : log[i].stage = s}),
                          avg_metric |-> 0]],
          last_transformation |-> log[1].timestamp]

\* MedallionTransformer.get_pipeline_stats(), run without interruption
GetPipelineStats(log) ==
    IF log = <<>> THEN [total_transformations |-> 0]
    ELSE [total_transformations |-> Len(log),
          stages |-> [s \in StageNames(log) |->
                         [count |-> Cardinality({i \in 1..Len(log) : log[i].stage = s}),
                          avg_metric |-> 0]],
          last_transformation |-> log[Len(log)].timestamp]

---------------------------------------------------------------------------
(* The request handler process_document (backend/app/main.py) *)

\* f"doc_{request.patient_id}_{len(mock_storage['bronze_documents']) + 1}"
DocId(patient_id, bronze_documents) ==
    "doc_" \o patient_id \o "_" \o ToString(Len(bronze_documents) + 1)

\* the None of a patient lookup that finds nothing
NoPatient == [id |-> "none"]

\* next((p for p in patients if p["id"] == patient_id), None)
FindPatient(patients, patient_id) ==
    LET HasId(p) == p.id = patient_id
        found == SelectSeq(patients, HasId)
    IN  IF found = <<>> THEN NoPatient ELSE found[1]

\* patient.get("preferences", {}).get("preferred_location", "unknown")
PreferredLocation(patient) ==
    IF "preferences" \in DOMAIN patient
       /\ "preferred_location" \in DOMAIN patient.preferences
    THEN patient.preferences.preferred_location
    ELSE "unknown"

\* the demographics the handler passes for a patient of the store
RequestDemographics(patient) ==
    [age |-> 52, sex |-> "female", location |-> PreferredLocation(patient)]

\* list.remove(x): the list without its first element equal to x
RECURSIVE Remove(_, _)
Remove(list, x) ==
    IF list = <<>> THEN <<>>
    ELSE IF Head(list) = x THEN Tail(list)
    ELSE <<Head(list)>> \o Remove(Tail(list), x)

\* variant of StoreGoldProfile: the profile is added, none is taken out
StoreGoldProfile_KeepsExisting(gold_profiles, gold_profile) ==
    Append(gold_profiles, gold_profile)

\* "Update or add gold profile": the first stored profile of the patient, if
\* there is one, is removed and the new profile is appended
StoreGoldProfile(gold_profiles, gold_profile) ==
    LET SamePatient(g) == g.patient_id = gold_profile.patient_id
        existing == SelectSeq(gold_profiles, SamePatient)
    IN  IF existing = <<>> THEN Append(gold_profiles, gold_profile)
        ELSE Append(Remove(gold_profiles, existing[1]), gold_profile)

\* variant of MedallionResults: a request without a profile reports the
\* business value of an empty profile
MedallionResults_DefaultProfile(bronze_doc, silver_entities, gold_profile) ==
    [bronze_document_id |-> bronze_doc.document_id,
     silver_entities_extracted |-> Len(silver_entities),
     gold_profile_updated |-> gold_profile # NoProfile,
     business_value |-> IF gold_profile # NoProfile THEN gold_profile.business_value
                        ELSE BuildProfile(bronze_doc.patient_id, Aggregate(<<>>),
                                          <<>>).business_value]

\* response["medallion_results"]
MedallionResults(bronze_doc, silver_entities, gold_profile) ==
    [bronze_document_id |-> bronze_doc.document_id,
     silver_entities_extracted |-> Len(silver_entities),
     gold_profile_updated |-> gold_profile # NoProfile,
     business_value |-> IF gold_profile # NoProfile THEN gold_profile.business_value
                        ELSE 0]

---------------------------------------------------------------------------
(* Inputs *)

MaxChunks == 2

MaxSupplied == 2

MaxDiagnoses == 4

MaxRepeat == 6

\* the text of the demo document of the repository, and a text without terms
ScenarioAText ==
    <<"M","e","t","f","o","r","m","i","n"," ","1","0","0","0"," ","m","g"," ","B","I","D",","," ","L","i","s","i","n","o","p","r","i","l"," ","1","0"," ","m","g"," ","d","a","i","l","y","."," ","A","1","C",":"," ","8",".","2","%",","," ","e","G","F","R",":"," ","8","6",","," ","h","y","p","e","r","t","e","n","s","i","o","n",","," ","t","y","p","e"," ","2"," ","d","i","a","b","e","t","e","s",".">>

TermFreeText == <<"P","a","t","i","e","n","t"," ","f","e","e","l","s"," ","w","e","l","l"," ","t","o","d","a","y",".">>

ScenarioDText == <<"D","x",":"," ","T","y","p","e"," ","2"," ","d","i","a","b","e","t","e","s",","," ","H","Y","P","E","R","T","E","N","S","I","O","N"," ","a","n","d"," ","h","y","p","e","r","l","i","p","i","d","e","m","i","a",";"," ","d","i","a","b","e","t","e","s"," ","d","i","e","t",".">>

\* pieces of clinical notes; a text is a concatenation of at most MaxChunks
Chunks ==
    { <<"M","e","t","f","o","r","m","i","n">>, <<" ","5","0","0"," ","m","g">>, <<" ">>, <<","," ">>, <<"s","e","m","a","g","l","u","t","i","d","e"," ">>,
      <<"A","1","C",":"," ","7",".","5">>, <<"%">>, <<"e","G","F","R",":"," ","5","9">>, <<"H","y","p","e","r","t","e","n","s","i","o","n">>, <<"t","y","p","e"," ","2"," ","d","i","a","b","e","t","e","s">>,
      <<"L","D","L"," ","1","3","0">> }

RECURSIVE Concat(_)
Concat(ss) == IF ss = <<>> THEN <<>> ELSE Head(ss) \o Concat(Tail(ss))

\* a text in which rules match several times, in several wordings
RepeatsText ==
    <<"l","d","l"," ","1","3","0",","," ","M","e","t","f","o","r","m","i","n"," "," ","2","0","m","g",";"," ","h","y","p","e","r","t","e","n","s","i","o","n",";"," ","t","y","p","e"," ","2"," ","d","i","a","b","e","t","e","s","."," ","L","I","S","I","N","O","P","R","I","L"," ","1","0"," ","m","g",","," ","m","e","t","f","o","r","m","i","n"," ","5","0","0"," ","m","g",","," ","T","Y","P","E"," "," ","2"," ","d","i","a","b","e","t","e","s",","," ","L","D","L",":"," ","9","9">>

Texts ==
    {ScenarioAText, TermFreeText, ScenarioDText, RepeatsText}
    \cup { Concat(ss) : ss \in UNION { [1..n -> Chunks] : n \in 0..MaxChunks } }

NoDoc == [document_id |-> "none", raw_content |-> <<>>]

\* BronzeDocument: the fields the pipeline reads
Documents == { [document_id |-> "doc_001", raw_content |-> t] : t \in Texts }

PatientIds == {"P001"}

\* demographics dicts; each of the keys may be missing
DemoOf(keys, age, sex, location) ==
    [k \in keys |-> IF k = "age" THEN age ELSE IF k = "sex" THEN sex ELSE location]

\* a record of a patient whose data is known, and one holding the values the
\* code defaults to
KnownPatient == [age |-> 52, sex |-> "female", location |-> "Boston"]

UnknownPatient == [age |-> 0, sex |-> "unknown", location |-> "unknown"]

Demographics ==
    { DemoOf(keys, KnownPatient.age, KnownPatient.sex, KnownPatient.location) :
          keys \in SUBSET {"age", "sex", "location"} }
    \cup {UnknownPatient}

\* entities a caller builds itself, with the SilverClinicalEntity constructor
LabEntity(value) == SilverClinicalEntity("lab_value", value, LabConfidence, value, None, None)

DiagnosisEntity(value, code) ==
    SilverClinicalEntity("diagnosis", value, DiagConfidence, value, code, None)

Hypertension == DiagnosisEntity(<<"E","s","s","e","n","t","i","a","l"," ","H","y","p","e","r","t","e","n","s","i","o","n">>, "I10")

Metformin500 ==
    SilverClinicalEntity("medication", <<"m","e","t","f","o","r","m","i","n"," ","5","0","0"," ","m","g">>, MedConfidence,
                         <<"m","e","t","f","o","r","m","i","n"," ","5","0","0"," ","m","g">>, "6809", None)

DiagUniverse ==
    { Hypertension,
      DiagnosisEntity(<<"H","y","p","e","r","l","i","p","i","d","e","m","i","a">>, "E78.5"),
      DiagnosisEntity(<<"T","y","p","e"," ","2"," ","D","i","a","b","e","t","e","s">>, "E11.9"),
      Metformin500 }

EntityUniverse ==
    { LabEntity(<<"h","e","m","o","g","l","o","b","i","n","_","a","1","c",":"," ","6",".","5">>), LabEntity(<<"h","e","m","o","g","l","o","b","i","n","_","a","1","c",":"," ","7",".","5">>),
      LabEntity(<<"h","e","m","o","g","l","o","b","i","n","_","a","1","c",":"," ","8",".","2">>),
      LabEntity(<<"e","g","f","r",":"," ","9","0">>), LabEntity(<<"e","g","f","r",":"," ","8","9">>), LabEntity(<<"e","g","f","r",":"," ","6","0">>),
      LabEntity(<<"e","g","f","r",":"," ","5","9">>), LabEntity(<<"e","g","f","r",":"," ","3","0">>), LabEntity(<<"e","g","f","r",":"," ","2","9">>),
      LabEntity(<<"g","l","u","c","o","s","e",":"," ","1","6","2">>),
      DiagnosisEntity(<<"O","b","e","s","i","t","y">>, "E66.9"),
      DiagnosisEntity(<<"R","e","d","u","c","e","d"," ","e","g","f","r"," ","2","0"," ","n","o","t","e","d">>, None),
      Metformin500,
      SilverClinicalEntity("contraindication", <<"U","n","c","o","n","t","r","o","l","l","e","d"," ","h","y","p","e","r","t","e","n","s","i","o","n">>, 80, <<"h","t","n">>,
                           None, "2024-05") }

\* long lists: k diagnoses followed by m medications
Repeated(e, n) == [i \in 1..n |-> e]

LongLists ==
    { Repeated(Hypertension, k) \o Repeated(Metformin500, m) :
          k \in 0..MaxRepeat, m \in 0..MaxRepeat }

\* lists whose first A1C or eGFR lab entity carries no number
UnparsableLists ==
    { <<LabEntity(<<"h","e","m","o","g","l","o","b","i","n","_","a","1","c",":"," ","p","e","n","d","i","n","g">>)>>,
      <<LabEntity(<<"e","g","f","r",":"," ","p","e","n","d","i","n","g">>)>>,
      <<LabEntity(<<"h","e","m","o","g","l","o","b","i","n","_","a","1","c",":"," ","p","e","n","d","i","n","g">>), LabEntity(<<"h","e","m","o","g","l","o","b","i","n","_","a","1","c",":"," ","8",".","2">>)>>,
      <<LabEntity(<<"e","g","f","r",":"," ","p","e","n","d","i","n","g">>), LabEntity(<<"e","g","f","r",":"," ","9","0">>)>>,
      <<LabEntity(<<"e","g","f","r",":"," ","p","e","n","d","i","n","g">>), LabEntity(<<"h","e","m","o","g","l","o","b","i","n","_","a","1","c",":"," ","7",".","5">>)>> }

Contraindication(value) ==
    SilverClinicalEntity("contraindication", value, 80, value, None, None)

\* lists with several contraindication entities
ContraindicationLists ==
    { <<Contraindication(<<"P","r","e","g","n","a","n","c","y">>), Hypertension,
        Contraindication(<<"S","e","v","e","r","e"," ","r","e","n","a","l"," ","i","m","p","a","i","r","m","e","n","t">>)>>,
      <<Contraindication(<<"S","e","v","e","r","e"," ","r","e","n","a","l"," ","i","m","p","a","i","r","m","e","n","t">>), Contraindication(<<"P","r","e","g","n","a","n","c","y">>),
        Metformin500, Contraindication(<<"P","r","e","g","n","a","n","c","y">>)>> }

\* lists in which entities that are no lab values mention a measurement
MentionLists ==
    { <<DiagnosisEntity(<<"E","l","e","v","a","t","e","d"," ","h","e","m","o","g","l","o","b","i","n","_","a","1","c">>, None)>>,
      <<SilverClinicalEntity("medication", <<"e","g","f","r"," ","1","5"," ","d","o","s","i","n","g">>, MedConfidence,
                             <<"e","g","f","r"," ","1","5"," ","d","o","s","i","n","g">>, None, None),
        LabEntity(<<"e","g","f","r",":"," ","9","0">>), LabEntity(<<"e","g","f","r",":"," ","2","9">>)>>,
      <<LabEntity(<<"e","g","f","r",":"," ","6","0">>), LabEntity(<<"e","g","f","r",":"," ","2","9">>),
        LabEntity(<<"h","e","m","o","g","l","o","b","i","n","_","a","1","c",":"," ","6",".","5">>), LabEntity(<<"h","e","m","o","g","l","o","b","i","n","_","a","1","c",":"," ","8",".","2">>)>> }

SuppliedLists ==
    UNION { [1..n -> EntityUniverse] : n \in 0..MaxSupplied }
    \cup UNION { [1..n -> DiagUniverse] : n \in 0..MaxDiagnoses }
    \cup LongLists
    \cup UnparsableLists
    \cup ContraindicationLists
    \cup MentionLists

\* fields of the structured records: absent, empty or present
OptionalStrings == {None, "", "x"}

Confidences == {0, 50, 95, 100}

NoRecord == [kind |-> "none"]

NoStats == [total_transformations |-> -1]

NoResponse == [success |-> FALSE]

\* mock_storage before the first request: the five patients and the
\* resources the server generates at startup, and the empty stores of the
\* pipeline
KnownPatients ==
    << [id |-> "P001", preferences |-> [preferred_location |-> "Madison, WI"]],
       [id |-> "P002", preferences |-> [preferred_location |-> "Boise, ID"]],
       [id |-> "P003", preferences |-> [preferred_location |-> "Reno, NV"]],
       [id |-> "P004", preferences |-> [preferred_location |-> "Fargo, ND"]],
       [id |-> "P005", preferences |-> [preferred_location |-> "Madison, WI"]] >>

EmptyStorage ==
    [patients |-> KnownPatients, resources |-> 20, bronze_documents |-> <<>>,
     silver_entities |-> <<>>, gold_profiles |-> <<>>]

\* the requests the handler receives: two patients of the store and one that
\* is not in it, and three document contents
MaxRequests == 3

RequestPatientIds == {"P001", "P002", "P999"}

RequestContents ==
    { <<"H","y","p","e","r","t","e","n","s","i","o","n",","," ","L","D","L"," ","1","3","0",","," ","h","t","n">>, <<"N","o"," ","t","e","r","m","s">>, <<"D","i","a","b","e","t","e","s",","," ","m","e","t","f","o","r","m","i","n"," ","5","0","0","m","g">> }

NoThreads == <<>>

\* the inputs of a caller that calls the transformer several times
MaxCalls == 3

FewDocuments ==
    { [document_id |-> "doc_001", raw_content |-> <<"H","y","p","e","r","t","e","n","s","i","o","n",","," ","L","D","L"," ","1","3","0",","," ","h","t","n">>],
      [document_id |-> "doc_002", raw_content |-> <<"N","o"," ","t","e","r","m","s">>] }

FewPatientIds == {"P001", "P002"}

FewDemographics == {KnownPatient, DemoOf({}, 0, "unknown", "unknown")}

FewLists == {<<>>, <<Hypertension, Metformin500>>}

\* the calls that threads make in parallel on one transformer
MaxThreads == 3

ThreadCalls ==
    { [method |-> "bronze_to_silver_document", bronze_doc |-> d] :
          d \in { f \in FewDocuments : f.document_id = "doc_001" } }
    \cup { [method |-> "silver_to_gold_patient", patient_id |-> "P001",
            entities |-> <<Hypertension, Metformin500>>, demographics |-> KnownPatient],
           [method |-> "get_pipeline_stats"] }

\* the log entry of a thread that has not built one
NoEntry == [stage |-> "none"]

\* a thread that has just called a method: its position in the method and
\* its local variables
NewThread(call) ==
    [call |-> call, at |-> "called", returned |-> NoStats, log_entry |-> NoEntry,
     position |-> 0, stages |-> <<>>, total |-> 0]

---------------------------------------------------------------------------
(* The transformer and its caller *)

Init ==
    /\ pc = "start"
    /\ doc = NoDoc
    /\ entities = <<>>
    /\ demographics = DemoOf({}, 0, "unknown", "unknown")
    /\ profile = NoProfile
    /\ transformation_log = <<>>
    /\ clock = 0
    /\ silver_record = NoRecord
    /\ calls = <<>>
    /\ stats = NoStats
    /\ mock_storage = EmptyStorage
    /\ response = NoResponse
    /\ threads = NoThreads

\* MedallionTransformer.bronze_to_silver_document(bronze_doc): the list it
\* returns is in entities
BronzeToSilverDocument(bronze_doc) ==
    LET ents == ExtractEntities(bronze_doc.raw_content)
    IN  /\ doc' = bronze_doc
        /\ entities' = ents
        /\ transformation_log' =
               LogTransformation(transformation_log, clock, "bronze_to_silver",
                                 bronze_doc.document_id, Len(ents))
        /\ clock' = clock + 1
        /\ calls' = Append(calls, [method |-> "bronze_to_silver_document",
                                   bronze_doc |-> bronze_doc, returned |-> ents])
        /\ UNCHANGED <<demographics, profile, silver_record, stats, mock_storage, response,
                       threads>>

\* variant of SilverToGoldPatient: the entities are taken out of the list
SilverToGoldPatient_ClearsEntities(patient_id, ents, demo) ==
    LET gold_profile == BuildProfile(patient_id, Aggregate(ents), demo)
    IN  /\ entities' = <<>>
        /\ demographics' = demo
        /\ profile' = gold_profile
        /\ transformation_log' =
               LogTransformation(transformation_log, clock, "silver_to_gold",
                                 patient_id, gold_profile.business_value)
        /\ clock' = clock + 1
        /\ calls' = Append(calls, [method |-> "silver_to_gold_patient",
                                   patient_id |-> patient_id, entities |-> ents,
                                   demographics |-> demo, returned |-> gold_profile])
        /\ UNCHANGED <<doc, silver_record, stats, mock_storage, response, threads>>

\* MedallionTransformer.silver_to_gold_patient(patient_id, entities,
\* demographics): the profile it returns is in profile
SilverToGoldPatient(patient_id, ents, demo) ==
    LET gold_profile == BuildProfile(patient_id, Aggregate(ents), demo)
    IN  /\ entities' = ents
        /\ demographics' = demo
        /\ profile' = gold_profile
        /\ transformation_log' =
               LogTransformation(transformation_log, clock, "silver_to_gold",
                                 patient_id, gold_profile.business_value)
        /\ clock' = clock + 1
        /\ calls' = Append(calls, [method |-> "silver_to_gold_patient",
                                   patient_id |-> patient_id, entities |-> ents,
                                   demographics |-> demo, returned |-> gold_profile])
        /\ UNCHANGED <<doc, silver_record, stats, mock_storage, response, threads>>

\* a caller extracts the entities of one document
BronzeToSilver ==
    /\ pc = "start"
    /\ \E d \in Documents : BronzeToSilverDocument(d)
    /\ pc' = "extracted"

\* a caller builds an entity list itself instead of extracting it
SupplyEntities ==
    /\ pc = "start"
    /\ \E ents \in SuppliedLists : entities' = ents
    /\ pc' = "supplied"
    /\ UNCHANGED <<doc, demographics, profile, transformation_log, clock,
                   silver_record, calls, stats, mock_storage, response, threads>>

\* the caller aggregates the entities it holds
SilverToGold ==
    /\ pc \in {"extracted", "supplied"}
    /\ \E patient_id \in PatientIds, demo \in Demographics :
           SilverToGoldPatient(patient_id, entities, demo)
    /\ pc' = "aggregated"

\* a caller constructs a structured lab result
ConstructLabResult ==
    /\ pc = "start"
    /\ \E unit, reference_range, abnormal_flag, loinc_code \in OptionalStrings :
           silver_record' = SilverLabResult("HbA1c", 82, unit, reference_range,
                                            "2024-01-15", abnormal_flag, loinc_code)
    /\ pc' = "constructed"
    /\ UNCHANGED <<doc, entities, demographics, profile, transformation_log, clock, calls,
                   stats, mock_storage, response, threads>>

\* a caller constructs a structured medication
ConstructMedication ==
    /\ pc = "start"
    /\ \E medication_name \in {"", "metformin"} :
         \E dosage, frequency, route, start_date, rxnorm_code \in OptionalStrings :
           silver_record' = SilverMedication(medication_name, dosage, frequency, route,
                                             start_date, None, rxnorm_code)
    /\ pc' = "constructed"
    /\ UNCHANGED <<doc, entities, demographics, profile, transformation_log, clock, calls,
                   stats, mock_storage, response, threads>>

\* a caller constructs a structured diagnosis
ConstructDiagnosis ==
    /\ pc = "start"
    /\ \E icd10_code, diagnosis_date \in OptionalStrings, confidence_score \in Confidences :
           silver_record' = SilverDiagnosis("Type 2 Diabetes", icd10_code, diagnosis_date,
                                            "primary", confidence_score)
    /\ pc' = "constructed"
    /\ UNCHANGED <<doc, entities, demographics, profile, transformation_log, clock, calls,
                   stats, mock_storage, response, threads>>

Next ==
    \/ BronzeToSilver
    \/ SupplyEntities
    \/ SilverToGold
    \/ ConstructLabResult
    \/ ConstructMedication
    \/ ConstructDiagnosis

Spec == Init /\ [][Next]_vars

\* a caller makes up to MaxCalls calls on one transformer, in any order
CallBronzeToSilver ==
    /\ Len(calls) < MaxCalls
    /\ \E d \in FewDocuments : BronzeToSilverDocument(d)
    /\ pc' = "extracted"

CallSilverToGold ==
    /\ Len(calls) < MaxCalls
    /\ \E patient_id \in FewPatientIds, ents \in FewLists \cup {entities},
          demo \in FewDemographics :
           SilverToGoldPatient(patient_id, ents, demo)
    /\ pc' = "aggregated"

\* the caller asks for the statistics
CallGetPipelineStats ==
    /\ stats' = GetPipelineStats(transformation_log)
    /\ pc' = "stats"
    /\ UNCHANGED <<doc, entities, demographics, profile, transformation_log, clock,
                   silver_record, calls, mock_storage, response, threads>>

NextCalls == CallBronzeToSilver \/ CallSilverToGold \/ CallGetPipelineStats

SpecCalls == Init /\ [][NextCalls]_vars

\* process_document(request) of main.py, from the request to the response.
\* The handler is a coroutine without an await: it runs to its end before
\* the event loop starts another request.
ProcessDocument ==
    /\ Len(mock_storage.bronze_documents) < MaxRequests
    /\ \E patient_id \in RequestPatientIds, content \in RequestContents :
       \E silver_entities \in {ExtractEntities(content)} :
       \E patient \in {FindPatient(mock_storage.patients, patient_id)} :
       \E gold_profile \in {IF patient = NoPatient THEN NoProfile
                            ELSE BuildProfile(patient_id, Aggregate(silver_entities),
                                              RequestDemographics(patient))} :
         LET doc_id == DocId(patient_id, mock_storage.bronze_documents)
             bronze_doc == [document_id |-> doc_id, patient_id |-> patient_id,
                            raw_content |-> content]
             log1 == LogTransformation(transformation_log, clock, "bronze_to_silver",
                                       doc_id, Len(silver_entities))
             call1 == [method |-> "bronze_to_silver_document",
                       bronze_doc |-> bronze_doc, returned |-> silver_entities]
             demo == RequestDemographics(patient)
             stored == [mock_storage EXCEPT
                           !.bronze_documents = Append(@, bronze_doc),
                           !.silver_entities = @ \o silver_entities,
                           !.resources = @ + 1]
         IN  /\ doc' = bronze_doc
             /\ entities' = silver_entities
             /\ profile' = gold_profile
             /\ response' = [success |-> TRUE,
                             medallion_results |->
                                 MedallionResults(bronze_doc, silver_entities,
                                                  gold_profile)]
             /\ IF patient = NoPatient
                THEN /\ transformation_log' = log1
                     /\ clock' = clock + 1
                     /\ calls' = Append(calls, call1)
                     /\ mock_storage' = stored
                     /\ UNCHANGED demographics
                ELSE /\ transformation_log' =
                            LogTransformation(log1, clock + 1, "silver_to_gold",
                                              patient_id, gold_profile.business_value)
                     /\ clock' = clock + 2
                     /\ calls' = calls \o
                            <<call1, [method |-> "silver_to_gold_patient",
                                      patient_id |-> patient_id,
                                      entities |-> silver_entities,
                                      demographics |-> demo,
                                      returned |-> gold_profile]>>
                     /\ mock_storage' =
                            [stored EXCEPT !.gold_profiles =
                                               StoreGoldProfile(@, gold_profile)]
                     /\ demographics' = demo
    /\ pc' = "handled"
    /\ UNCHANGED <<silver_record, stats, threads>>

NextHandler == ProcessDocument

SpecHandler == Init /\ [][NextHandler]_vars

\* A thread calls a method of the shared transformer.  Between two accesses
\* to self.transformation_log a thread may be suspended and another one run:
\* list.append, len() and indexing are each one step of the interpreter.
ThreadCall ==
    /\ Len(threads) < MaxThreads
    /\ \E call \in ThreadCalls : threads' = Append(threads, NewThread(call))
    /\ pc' = "threads"
    /\ UNCHANGED <<doc, entities, demographics, profile, transformation_log, clock,
                   silver_record, calls, stats, mock_storage, response>>

\* bronze_to_silver_document / silver_to_gold_patient up to the first half
\* of _log_transformation: the result is computed from the arguments and
\* the log entry is built with the time read now
ThreadBuildEntry(t) ==
    /\ threads[t].at = "called"
    /\ threads[t].call.method # "get_pipeline_stats"
    /\ \E result \in { IF threads[t].call.method = "bronze_to_silver_document"
                       THEN ExtractEntities(threads[t].call.bronze_doc.raw_content)
                       ELSE BuildProfile(threads[t].call.patient_id,
                                         Aggregate(threads[t].call.entities),
                                         threads[t].call.demographics) } :
         threads' = [threads EXCEPT
             ![t].at = "entry_built",
             ![t].returned = result,
             ![t].log_entry =
                 IF threads[t].call.method = "bronze_to_silver_document"
                 THEN [timestamp |-> clock, stage |-> "bronze_to_silver",
                       entity_id |-> threads[t].call.bronze_doc.document_id,
                       metric |-> Len(result)]
                 ELSE [timestamp |-> clock, stage |-> "silver_to_gold",
                       entity_id |-> threads[t].call.patient_id,
                       metric |-> result.business_value]]
    /\ clock' = clock + 1
    /\ pc' = "threads"
    /\ UNCHANGED <<doc, entities, demographics, profile, transformation_log,
                   silver_record, calls, stats, mock_storage, response>>

\* self.transformation_log.append(log_entry), after which the method returns
ThreadAppend(t) ==
    /\ threads[t].at = "entry_built"
    /\ transformation_log' =
           LogTransformation(transformation_log, threads[t].log_entry.timestamp,
                             threads[t].log_entry.stage, threads[t].log_entry.entity_id,
                             threads[t].log_entry.metric)
    /\ threads' = [threads EXCEPT ![t].at = "returned"]
    /\ pc' = "threads"
    /\ UNCHANGED <<doc, entities, demographics, profile, clock, silver_record, calls,
                   stats, mock_storage, response>>

\* get_pipeline_stats: "if not self.transformation_log"
ThreadStatsEmptyTest(t) ==
    /\ threads[t].at = "called"
    /\ threads[t].call.method = "get_pipeline_stats"
    /\ threads' = IF transformation_log = <<>>
                  THEN [threads EXCEPT ![t].at = "returned",
                                       ![t].returned = [total_transformations |-> 0]]
                  ELSE [threads EXCEPT ![t].at = "loop"]
    /\ pc' = "threads"
    /\ UNCHANGED <<doc, entities, demographics, profile, transformation_log, clock,
                   silver_record, calls, stats, mock_storage, response>>

\* get_pipeline_stats: one round of "for entry in self.transformation_log".
\* The iterator reads the list as it is now, entries appended since the loop
\* began included, and ends the loop when its position is the length.
ThreadStatsLoop(t) ==
    /\ threads[t].at = "loop"
    /\ threads' = IF threads[t].position < Len(transformation_log)
                  THEN [threads EXCEPT
                           ![t].position = @ + 1,
                           ![t].stages =
                               CountStage(@, transformation_log[threads[t].position + 1].stage)]
                  ELSE [threads EXCEPT ![t].at = "len"]
    /\ pc' = "threads"
    /\ UNCHANGED <<doc, entities, demographics, profile, transformation_log, clock,
                   silver_record, calls, stats, mock_storage, response>>

\* get_pipeline_stats: len(self.transformation_log) of the returned dict
ThreadStatsLen(t) ==
    /\ threads[t].at = "len"
    /\ threads' = [threads EXCEPT ![t].at = "last",
                                  ![t].total = Len(transformation_log)]
    /\ pc' = "threads"
    /\ UNCHANGED <<doc, entities, demographics, profile, transformation_log, clock,
                   silver_record, calls, stats, mock_storage, response>>

\* get_pipeline_stats: self.transformation_log[-1]["timestamp"], and return
ThreadStatsLast(t) ==
    /\ threads[t].at = "last"
    /\ threads' = [threads EXCEPT
                      ![t].at = "returned",
                      ![t].returned =
                          [total_transformations |-> threads[t].total,
                           stages |-> threads[t].stages,
                           last_transformation |->
                               transformation_log[Len(transformation_log)].timestamp]]
    /\ pc' = "threads"
    /\ UNCHANGED <<doc, entities, demographics, profile, transformation_log, clock,
                   silver_record, calls, stats, mock_storage, response>>

NextThreads ==
    \/ ThreadCall
    \/ \E t \in 1..Len(threads) :
           \/ ThreadBuildEntry(t)
           \/ ThreadAppend(t)
           \/ ThreadStatsEmptyTest(t)
           \/ ThreadStatsLoop(t)
           \/ ThreadStatsLen(t)
           \/ ThreadStatsLast(t)

SpecThreads == Init /\ [][NextThreads]_vars

---------------------------------------------------------------------------
(* Properties *)

Aggregated == pc = "aggregated"

\* the entities are those bronze_to_silver_document returned for doc
Extracted == pc \in {"extracted", "aggregated"} /\ doc # NoDoc

Factors == profile.trial_eligibility_factors

HasPrefix(s, prefix) == Len(s) >= Len(prefix) /\ SubSeq(s, 1, Len(prefix)) = prefix

\* a lab_value entity  "<label><number>"
IsLabOf(e, label) == e.entity_type = "lab_value" /\ HasPrefix(e.entity_value, label)

HasLabOf(ents, label) == \E i \in 1..Len(ents) : IsLabOf(ents[i], label)

\* the number the first lab entity of that label carries
FirstLabNumber(ents, label) ==
    LET i == CHOOSE k \in 1..Len(ents) :
                 IsLabOf(ents[k], label) /\ \A j \in 1..(k - 1) : ~IsLabOf(ents[j], label)
    IN  ParseFloat(SubSeq(ents[i].entity_value, Len(label) + 1, Len(ents[i].entity_value)))

A1cLabel == <<"h","e","m","o","g","l","o","b","i","n","_","a","1","c",":"," ">>

EgfrLabel == <<"e","g","f","r",":"," ">>

\* the first lab entity of that label
FirstLabOf(ents, label) ==
    ents[CHOOSE k \in 1..Len(ents) :
             IsLabOf(ents[k], label) /\ \A j \in 1..(k - 1) : ~IsLabOf(ents[j], label)]

\* no lab entity of that label, or the first one has no digit after its label
NoLabNumber(ents, label) ==
    \/ ~HasLabOf(ents, label)
    \/ LET v == FirstLabOf(ents, label).entity_value
       IN  \A i \in (Len(label) + 1)..Len(v) : v[i] \notin Digit

\* C1: whenever the entity list holds an A1C lab entity 'hemoglobin_a1c: <v>',
\* diabetes_controlled is well_controlled for v < 7.0, moderately_controlled
\* for 7.0 <= v < 8.0 and poorly_controlled for v >= 8.0, v being the number
\* of the first such entity.
C1_DiabetesControlFollowsA1c ==
    (Aggregated /\ ~NoLabNumber(entities, A1cLabel)) =>
        LET v == FirstLabNumber(entities, A1cLabel)
        IN  Factors.diabetes_controlled =
                IF v.num < 7 * v.den THEN "well_controlled"
                ELSE IF v.num < 8 * v.den THEN "moderately_controlled"
                ELSE "poorly_controlled"

\* C2: whenever the entity list holds an eGFR lab entity 'egfr: <v>',
\* renal_function is normal for v >= 90, mild_impairment for 60 <= v < 90,
\* moderate_impairment for 30 <= v < 60 and severe_impairment for v < 30, v
\* being the number of the first such entity.
C2_RenalFunctionFollowsEgfr ==
    (Aggregated /\ ~NoLabNumber(entities, EgfrLabel)) =>
        LET v == FirstLabNumber(entities, EgfrLabel)
        IN  Factors.renal_function =
                IF v.num >= 90 * v.den THEN "normal"
                ELSE IF v.num >= 60 * v.den THEN "mild_impairment"
                ELSE IF v.num >= 30 * v.den THEN "moderate_impairment"
                ELSE "severe_impairment"

ScenarioAAggregated == Aggregated /\ doc.raw_content = ScenarioAText

HasEntity(ents, type, value, code) ==
    \E i \in 1..Len(ents) :
        /\ ents[i].entity_type = type
        /\ ents[i].entity_value = value
        /\ IF code = None THEN ents[i].normalized_code \notin {None, ""}
           ELSE ents[i].normalized_code = code

\* C4: extraction of the Scenario A text returns exactly six entities:
\* medications metformin and lisinopril, each with a code, diagnoses
\* hypertension (I10) and type 2 diabetes (E11.9), and lab values A1C 8.2 and
\* eGFR 86.
C4_ScenarioAExtraction ==
    (Extracted /\ doc.raw_content = ScenarioAText) =>
        /\ Len(entities) = 6
        /\ HasEntity(entities, "medication", <<"m","e","t","f","o","r","m","i","n"," ","1","0","0","0"," ","m","g">>, None)
        /\ HasEntity(entities, "medication", <<"l","i","s","i","n","o","p","r","i","l"," ","1","0"," ","m","g">>, None)
        /\ HasEntity(entities, "diagnosis", <<"E","s","s","e","n","t","i","a","l"," ","H","y","p","e","r","t","e","n","s","i","o","n">>, "I10")
        /\ HasEntity(entities, "diagnosis", <<"T","y","p","e"," ","2"," ","D","i","a","b","e","t","e","s">>, "E11.9")
        /\ HasEntity(entities, "lab_value", <<"h","e","m","o","g","l","o","b","i","n","_","a","1","c",":"," ","8",".","2">>, "4548-4")
        /\ HasEntity(entities, "lab_value", <<"e","g","f","r",":"," ","8","6">>, "33914-3")

C4_Witness == pc = "extracted" /\ doc.raw_content = ScenarioAText

\* the number of the five conditions of completeness that hold, a location
\* and a sex of 'unknown' counting as not known
KnownFields(p) ==
    LET known == << p.primary_conditions # <<>>,
                    p.current_medications # <<>>,
                    p.geographic_location # "unknown",
                    p.age_years > 0,
                    p.sex # "unknown" >>
    IN  Cardinality({k \in 1..5 : known[k]})

\* 0.2*|primary_conditions| + 0.1*|comorbidities| + 0.1*|current_medications|,
\* in hundredths
RichnessSum(p) ==
    20 * Len(p.primary_conditions) + 10 * Len(p.comorbidities)
    + 10 * Len(p.current_medications)

\* C5: business_value = 0.7*completeness + 0.3*richness, completeness being
\* the share of {conditions non-empty, medications non-empty, location known,
\* age > 0, sex known} and richness the sum above capped at 1.0.
C5_BusinessValueFormula ==
    Aggregated =>
        100 * profile.business_value =
            70 * (20 * KnownFields(profile))
            + 30 * (IF RichnessSum(profile) > 100 THEN 100 ELSE RichnessSum(profile))

\* C6: a text without terms gives an empty list, and aggregating an empty
\* list with demographics {age: 0, sex: unknown, location: unknown} gives
\* business_value 0 and all three eligibility factors 'unknown'.
C6_ScenarioBEmptyProfile ==
    /\ (Extracted /\ doc.raw_content = TermFreeText) => entities = <<>>
    /\ (Aggregated /\ entities = <<>> /\ demographics = UnknownPatient) =>
           /\ profile.business_value = 0
           /\ Factors.diabetes_controlled = "unknown"
           /\ Factors.renal_function = "unknown"
           /\ Factors.cardiac_risk = "unknown"

RiskTerms == { <<"h","y","p","e","r","t","e","n","s","i","o","n">>, <<"h","y","p","e","r","l","i","p","i","d","e","m","i","a">>, <<"d","i","a","b","e","t","e","s">> }

\* the risk terms that occur in the value of a diagnosis entity
MatchedRiskTerms(ents) ==
    { t \in RiskTerms :
        \E i \in 1..Len(ents) :
            ents[i].entity_type = "diagnosis" /\ Contains(Lower(ents[i].entity_value), t) }

\* C7: cardiac_risk follows the number n of distinct risk terms found in
\* diagnosis entities: 3 high, 2 moderate, 1 low, 0 minimal; and a text
\* naming the three diagnoses gives high.
C7_CardiacRiskCountsDistinctTerms ==
    Aggregated =>
        /\ Factors.cardiac_risk =
               CASE Cardinality(MatchedRiskTerms(entities)) = 3 -> "high"
                 [] Cardinality(MatchedRiskTerms(entities)) = 2 -> "moderate"
                 [] Cardinality(MatchedRiskTerms(entities)) = 1 -> "low"
                 [] OTHER -> "minimal"
        /\ doc.raw_content = ScenarioDText => Factors.cardiac_risk = "high"

\* a list in which a diagnosis comes twice and all three risk terms occur
C7_Witness ==
    /\ Aggregated
    /\ \E i, j \in 1..Len(entities) : i # j /\ entities[i] = entities[j]
                                      /\ entities[i].entity_type = "diagnosis"
    /\ Factors.cardiac_risk = "high"

\* the values of the diagnosis entities, in list order
RECURSIVE DiagnosisValues(_)
DiagnosisValues(ents) ==
    IF ents = <<>> THEN <<>>
    ELSE (IF Head(ents).entity_type = "diagnosis" THEN <<Head(ents).entity_value>>
          ELSE <<>>) \o DiagnosisValues(Tail(ents))

\* C8: primary_conditions has at most three elements, primary_conditions
\* followed by comorbidities is the list of diagnosis values in input order,
\* and four diagnoses D1..D4 give [D1, D2, D3] and [D4].
C8_PrimaryComorbiditySplit ==
    Aggregated =>
        LET d == DiagnosisValues(entities)
        IN  /\ Len(profile.primary_conditions) <= 3
            /\ profile.primary_conditions \o profile.comorbidities = d
            /\ Len(d) = 4 =>
                   /\ profile.primary_conditions = <<d[1], d[2], d[3]>>
                   /\ profile.comorbidities = <<d[4]>>

C8_Witness ==
    /\ Aggregated
    /\ Len(DiagnosisValues(entities)) = 4
    /\ Len(profile.comorbidities) = 1

\* C9: 0 <= business_value <= 1 for every profile.
C9_BusinessValueInUnitInterval ==
    Aggregated => (profile.business_value >= 0 /\ profile.business_value <= 100)

\* a profile whose richness sum exceeds 1.0
C9_Witness ==
    Aggregated /\ RichnessSum(profile) > 100 /\ profile.business_value = 100

\* C10: every entity bronze_to_silver_document returns has confidence_score
\* and quality_score in [0,1], quality_score being
\* min(1.0, confidence_score + 0.2 if coded + 0.1 if dated).
C10_EntityScoresInUnitInterval ==
    Extracted =>
        \A i \in 1..Len(entities) :
            LET e == entities[i]
                sum == e.confidence_score
                       + (IF e.normalized_code # None THEN 20 ELSE 0)
                       + (IF e.temporal_info # None THEN 10 ELSE 0)
            IN  /\ e.confidence_score >= 0 /\ e.confidence_score <= 100
                /\ e.quality_score >= 0 /\ e.quality_score <= 100
                /\ e.quality_score = IF sum > 100 THEN 100 ELSE sum

\* an extracted entity whose sum exceeds 1.0, beside one without a code
C10_Witness ==
    /\ pc = "extracted" /\ doc # NoDoc
    /\ \E i \in 1..Len(entities) :
           entities[i].confidence_score + 20 > 100 /\ entities[i].normalized_code # None
    /\ \E i \in 1..Len(entities) : entities[i].normalized_code = None


\* C11: every score of a structured silver record (lab result, medication,
\* diagnosis) is in [0, 1], whatever fields are present and whatever the
\* confidence in [0, 1].
C11_VariantScoresInUnitInterval ==
    silver_record # NoRecord =>
        /\ 0 <= silver_record.quality_score.num
        /\ silver_record.quality_score.num <= silver_record.quality_score.den

\* C12: silver_to_gold_patient returns a profile for every list, with
\* diabetes_controlled = unknown when the list has no A1C lab entity or the
\* first one carries no number, and renal_function = unknown when it has no
\* eGFR lab entity or the first one carries no number.
C12_UnparsableLabGivesUnknown ==
    Aggregated =>
        /\ profile # NoProfile
        /\ NoLabNumber(entities, A1cLabel) => Factors.diabetes_controlled = "unknown"
        /\ NoLabNumber(entities, EgfrLabel) => Factors.renal_function = "unknown"

\* the known terms: medication names, diagnosis synonyms, lab labels
KnownTerms ==
    [k \in 1..Len(MedNames) |-> Lit(MedNames[k], 0)]
    \o [k \in 1..Len(DiagnosisPatterns) |-> DiagnosisPatterns[k].pattern]
    \o << Lit(<<"a","1","c">>, 0), Lit(<<"g","l","u","c","o","s","e">>, 0), Lit(<<"c","r","e","a","t","i","n","i","n","e">>, 0),
          Lit(<<"e","g","f","r">>, 0), Lit(<<"l","d","l">>, 0), Lit(<<"h","d","l">>, 0) >>

\* the number of occurrences of the terms from the k-th on in txt
RECURSIVE OccurrencesFrom(_, _)
OccurrencesFrom(txt, k) ==
    IF k > Len(KnownTerms) THEN 0
    ELSE Cardinality(MatchPositions(KnownTerms[k], txt, 1)) + OccurrencesFrom(txt, k + 1)

\* the number of occurrences of known terms in a text, whatever the case
TermOccurrences(text) == OccurrencesFrom(Lower(text), 1)

\* C13: bronze_to_silver_document returns a list for every text, with at
\* most as many entities as the text has occurrences of known terms; an
\* empty text and a text without known terms give the empty list.
C13_EntitiesBoundedByOccurrences ==
    Extracted =>
        /\ Len(entities) <= TermOccurrences(doc.raw_content)
        /\ doc.raw_content \in {<<>>, TermFreeText} => entities = <<>>

\* a text with more occurrences of known terms than entities
C13_Witness ==
    /\ Extracted
    /\ Len(entities) > 0
    /\ Len(entities) < TermOccurrences(doc.raw_content)

\* the medication entities of a list
MedicationEntities(ents) ==
    LET IsMedication(e) == e.entity_type = "medication"
    IN  SelectSeq(ents, IsMedication)

\* the positions at which a literal term occurs in txt
OccurrencesOf(term, txt) == MatchPositions(Lit(term, 0), txt, 1)

\* the dosage token that follows position p of txt (white space, digits,
\* 'mg'), or <<>> when none does
DosageAt(txt, p) ==
    LET m == MatchHere(Spaces1 \o Digits1(1) \o <<Atom("star", Space, 1)>>
                       \o Lit(<<"m","g">>, 1), txt, p, NoGroups)
    IN  IF m.ok THEN m.groups[1] ELSE <<>>

\* the entity values the occurrences of a medication name give: the name,
\* followed by the dosage token when there is one
ClaimedMedicationValues(name, txt) ==
    { IF DosageAt(txt, p + Len(name)) = <<>> THEN name
      ELSE name \o <<" ">> \o DosageAt(txt, p + Len(name)) : p \in OccurrencesOf(name, txt) }

\* C14: each occurrence of a known medication name in the text, whatever
\* follows it, gives one medication entity: as many entities carry the name as
\* the text has occurrences of it, their values are the name, followed by the
\* dosage token where one follows, their confidence is 0.9 and their code is
\* the entry of the medication code table for the name.
C14_EveryMedicationOccurrenceExtracted ==
    Extracted =>
        LET txt == Lower(doc.raw_content)
            meds == MedicationEntities(entities)
        IN  \A k \in 1..Len(MedNames) :
                LET name == MedNames[k]
                    mine == { i \in 1..Len(meds) : HasPrefix(meds[i].entity_value, name) }
                IN  /\ Cardinality(mine) = Cardinality(OccurrencesOf(name, txt))
                    /\ { meds[i].entity_value : i \in mine }
                           = ClaimedMedicationValues(name, txt)
                    /\ \A i \in mine :
                           /\ meds[i].confidence_score = 90
                           /\ meds[i].normalized_code = GetRxnormCode(name)

\* the lab rules as the claim has them: the label as written in a text, the
\* number that follows it, and the name of the lab in the entity value
ClaimedLabRules ==
    << [label |-> <<"a","1","c">>, number |-> Decimal(1), lab_name |-> <<"h","e","m","o","g","l","o","b","i","n","_","a","1","c">>],
       [label |-> <<"g","l","u","c","o","s","e">>, number |-> Digits1(1), lab_name |-> <<"g","l","u","c","o","s","e">>],
       [label |-> <<"c","r","e","a","t","i","n","i","n","e">>, number |-> Decimal(1), lab_name |-> <<"c","r","e","a","t","i","n","i","n","e">>],
       [label |-> <<"e","g","f","r">>, number |-> Digits1(1), lab_name |-> <<"e","g","f","r">>],
       [label |-> <<"l","d","l">>, number |-> Digits1(1), lab_name |-> <<"l","d","l","_","c","h","o","l","e","s","t","e","r","o","l">>],
       [label |-> <<"h","d","l">>, number |-> Digits1(1), lab_name |-> <<"h","d","l","_","c","h","o","l","e","s","t","e","r","o","l">>] >>

\* the entity values a lab rule gives when no unit is required: one per
\* label followed by a number
ClaimedLabValues(rule, txt) ==
    LET matches == FindIter(Label(rule.label) \o rule.number, txt, 1)
    IN  [i \in 1..Len(matches) |-> rule.lab_name \o <<":", " ">> \o matches[i].groups[1]]

\* the lab_value entities of a list that carry a lab name
LabEntitiesOf(ents, lab_name) ==
    LET IsOfLab(e) == IsLabOf(e, lab_name \o <<":", " ">>)
    IN  SelectSeq(ents, IsOfLab)

\* C15: for each of the six lab rules, each label followed by a number in
\* the text, with or without a unit after the number, gives one lab_value
\* entity '<lab_name>: <value>' of confidence 0.85 whose code is the entry of
\* the lab code table.
C15_LabValueNeedsNoUnit ==
    Extracted =>
        \A k \in 1..Len(ClaimedLabRules) :
            LET rule == ClaimedLabRules[k]
                labs == LabEntitiesOf(entities, rule.lab_name)
                claimed == ClaimedLabValues(rule, Lower(doc.raw_content))
            IN  /\ Len(labs) = Len(claimed)
                /\ \A i \in 1..Len(labs) :
                       /\ labs[i].entity_value = claimed[i]
                       /\ labs[i].confidence_score = 85
                       /\ labs[i].normalized_code = GetLoincCode(rule.lab_name)

\* the rules in the order the claim gives the entities: the medication
\* rules, the diagnosis rules, the lab rules, each class as declared; Owns
\* tells the entities of a rule by their type and value
RulesInOrder ==
    [k \in 1..Len(MedNames) |->
        [entity_type |-> "medication", pattern |-> MedPattern(MedNames[k]),
         value |-> MedNames[k], whole |-> FALSE]]
    \o [k \in 1..Len(DiagnosisPatterns) |->
        [entity_type |-> "diagnosis", pattern |-> DiagnosisPatterns[k].pattern,
         value |-> DiagnosisPatterns[k].standard_name, whole |-> TRUE]]
    \o [k \in 1..Len(LabPatterns) |->
        [entity_type |-> "lab_value", pattern |-> LabPatterns[k].pattern,
         value |-> LabPatterns[k].lab_name \o <<":", " ">>, whole |-> FALSE]]

Owns(rule, e) ==
    /\ e.entity_type = rule.entity_type
    /\ IF rule.whole THEN e.entity_value = rule.value ELSE HasPrefix(e.entity_value, rule.value)

\* the place of the rule of an entity in RulesInOrder
RuleRank(e) == CHOOSE k \in 1..Len(RulesInOrder) : Owns(RulesInOrder[k], e)

\* C16: the list bronze_to_silver_document returns has one entity per
\* non-overlapping match of each rule (as many entities as matches, none
\* merged); medications come before diagnoses and diagnoses before lab
\* values, inside a class the entities of an earlier rule come first, and the
\* entities of one rule follow the matches from left to right.
C16_OneEntityPerMatchInRuleOrder ==
    Extracted =>
        LET txt == Lower(doc.raw_content)
        IN  /\ \A i \in 1..Len(entities) : \E k \in 1..Len(RulesInOrder) :
                   Owns(RulesInOrder[k], entities[i])
            /\ \A i, j \in 1..Len(entities) :
                   i < j => RuleRank(entities[i]) <= RuleRank(entities[j])
            /\ \A k \in 1..Len(RulesInOrder) :
                   LET OfRule(e) == Owns(RulesInOrder[k], e)
                       mine == SelectSeq(entities, OfRule)
                       matches == FindIter(RulesInOrder[k].pattern, txt, 1)
                   IN  /\ Len(mine) = Len(matches)
                       /\ \A i \in 1..Len(mine) :
                              mine[i].extracted_from = Group0(txt, matches[i])

\* the text with repeated matches has been extracted: eight entities
C16_Witness ==
    /\ Extracted
    /\ doc.raw_content = RepeatsText
    /\ Len(entities) = 8
    /\ entities[1].extracted_from # entities[2].extracted_from

\* the diagnosis entities of a list
DiagnosisEntities(ents) ==
    LET IsDiagnosis(e) == e.entity_type = "diagnosis"
    IN  SelectSeq(ents, IsDiagnosis)

\* the wording is a match of the pattern, from its first to its last character
MatchesWhole(pattern, wording) ==
    LET m == MatchHere(pattern, wording, 1, NoGroups)
    IN  m.ok /\ m.end = Len(wording) + 1

\* C17: every diagnosis entity extracted from a text has confidence 0.95 and
\* carries the canonical name and the code of the rule its wording matched,
\* so that two entities of one rule agree on both, whatever their wording.
C17_DiagnosisCanonicalPerRule ==
    Extracted =>
        LET diags == DiagnosisEntities(entities)
        IN  /\ \A i \in 1..Len(diags) :
                   /\ diags[i].confidence_score = 95
                   /\ \E k \in 1..Len(DiagnosisPatterns) :
                          /\ MatchesWhole(DiagnosisPatterns[k].pattern, diags[i].extracted_from)
                          /\ diags[i].entity_value = DiagnosisPatterns[k].standard_name
                          /\ diags[i].normalized_code = DiagnosisPatterns[k].icd_code
            /\ \A i, j \in 1..Len(diags) :
                   (\E k \in 1..Len(DiagnosisPatterns) :
                        /\ MatchesWhole(DiagnosisPatterns[k].pattern, diags[i].extracted_from)
                        /\ MatchesWhole(DiagnosisPatterns[k].pattern, diags[j].extracted_from))
                   => /\ diags[i].entity_value = diags[j].entity_value
                      /\ diags[i].normalized_code = diags[j].normalized_code

\* two diagnosis entities of one rule, extracted from different wordings
C17_Witness ==
    /\ Extracted
    /\ \E i, j \in 1..Len(entities) :
           /\ entities[i].entity_type = "diagnosis"
           /\ entities[j].entity_type = "diagnosis"
           /\ entities[i].entity_value = entities[j].entity_value
           /\ entities[i].extracted_from # entities[j].extracted_from

\* C18: silver_to_gold_patient returns a profile for every entity list and
\* every demographics record; a missing age gives age_years = 0, a missing
\* sex gives sex = unknown and a missing location gives geographic_location =
\* unknown.
C18_MissingDemographicsDefault ==
    Aggregated =>
        /\ profile # NoProfile
        /\ profile.patient_id \in PatientIds
        /\ "age" \notin DOMAIN demographics => profile.age_years = 0
        /\ "sex" \notin DOMAIN demographics => profile.sex = "unknown"
        /\ "location" \notin DOMAIN demographics => profile.geographic_location = "unknown"

\* a profile built from entities and a demographics record without fields
C18_Witness ==
    /\ Aggregated
    /\ DOMAIN demographics = {}
    /\ Len(entities) > 0
    /\ profile.age_years = 0

\* the calls of silver_to_gold_patient among the calls made so far
AggregationCalls == { i \in 1..Len(calls) : calls[i].method = "silver_to_gold_patient" }

SameArguments(c, d) ==
    /\ c.patient_id = d.patient_id
    /\ c.entities = d.entities
    /\ c.demographics = d.demographics

ClaimedLogEntry(c) ==
    IF c.method = "bronze_to_silver_document"
    THEN [stage |-> "bronze_to_silver", entity_id |-> c.bronze_doc.document_id,
          metric |-> Len(c.returned)]
    ELSE [stage |-> "silver_to_gold", entity_id |-> c.patient_id,
          metric |-> c.returned.business_value]

\* C20: after any sequence of calls the transformation log has one entry per
\* call, in call order: an extraction leaves stage bronze_to_silver, the
\* document_id and the number of entities returned; an aggregation leaves
\* stage silver_to_gold, the patient_id and the business_value of the profile
\* returned.
C20_OneLogEntryPerCall ==
    /\ Len(transformation_log) = Len(calls)
    /\ \A i \in 1..Len(calls) :
           LET entry == transformation_log[i]
               claimed == ClaimedLogEntry(calls[i])
           IN  /\ entry.stage = claimed.stage
               /\ entry.entity_id = claimed.entity_id
               /\ entry.metric = claimed.metric

\* an extraction, an aggregation and another extraction, of different subjects
C20_Witness ==
    /\ Len(calls) = 3
    /\ Len(transformation_log) = 3
    /\ calls[1].method = "bronze_to_silver_document"
    /\ calls[2].method = "silver_to_gold_patient"
    /\ calls[3].method = "bronze_to_silver_document"
    /\ calls[1].bronze_doc.document_id # calls[3].bronze_doc.document_id
    /\ Len(calls[1].returned) > 0

\* the sum of the per-stage counts of a stages map
RECURSIVE SumCounts(_, _)
SumCounts(stages, names) ==
    IF names = {} THEN 0
    ELSE LET s == CHOOSE x \in names : TRUE
         IN  stages[s].count + SumCounts(stages, names \ {s})

\* get_pipeline_stats has just returned: the log is as the call found it
StatsReturned == pc = "stats"

\* C21: get_pipeline_stats returns the length of the log as
\* total_transformations, for each stage name of the log the number of its
\* entries (the counts add up to the total) and the timestamp of the entry
\* appended last; on an empty log it returns total_transformations = 0.
C21_StatsMatchLog ==
    StatsReturned =>
        IF transformation_log = <<>> THEN stats.total_transformations = 0
        ELSE /\ stats.total_transformations = Len(transformation_log)
             /\ DOMAIN stats.stages = StageNames(transformation_log)
             /\ \A s \in DOMAIN stats.stages :
                    stats.stages[s].count =
                        Cardinality({ i \in 1..Len(transformation_log) :
                                          transformation_log[i].stage = s })
             /\ SumCounts(stats.stages, DOMAIN stats.stages) = stats.total_transformations
             /\ stats.last_transformation =
                    transformation_log[Len(transformation_log)].timestamp

\* statistics of a log of three entries with both stages
C21_Witness ==
    /\ StatsReturned
    /\ stats.total_transformations = 3
    /\ DOMAIN stats.stages = {"bronze_to_silver", "silver_to_gold"}
    /\ stats.last_transformation = 2

\* statistics of the empty log
C21_WitnessEmpty == StatsReturned /\ transformation_log = <<>> /\ stats # NoStats

\* C26: the transformation log only grows at its end: in every step the log
\* before is a prefix of the log after, and a step that is no call of
\* bronze_to_silver_document or silver_to_gold_patient (a call of
\* get_pipeline_stats) leaves the log as it is.
C26_LogAppendOnly ==
    [][/\ Len(transformation_log') >= Len(transformation_log)
       /\ SubSeq(transformation_log', 1, Len(transformation_log)) = transformation_log
       /\ calls' = calls => transformation_log' = transformation_log]_vars

\* a log that grew after statistics were taken of its first two entries
C26_Witness ==
    /\ Len(transformation_log) = 3
    /\ stats # NoStats
    /\ stats.total_transformations = 2

\* the values of the entities of a type, in list order
RECURSIVE ValuesWithType(_, _)
ValuesWithType(ents, type) ==
    IF ents = <<>> THEN <<>>
    ELSE (IF Head(ents).entity_type = type THEN <<Head(ents).entity_value>> ELSE <<>>)
         \o ValuesWithType(Tail(ents), type)

\* C24: the contraindications of a profile are the values of the
\* contraindication entities of the list, in order; a list that
\* bronze_to_silver_document returned holds none, so that the profile of an
\* extracted document has no contraindications.
C24_ContraindicationsOnlyWhenSupplied ==
    Aggregated =>
        /\ profile.contraindications = ValuesWithType(entities, "contraindication")
        /\ Extracted =>
               /\ \A i \in 1..Len(entities) : entities[i].entity_type # "contraindication"
               /\ profile.contraindications = <<>>

\* a profile with two different contraindications supplied by the caller
C24_Witness ==
    /\ Aggregated
    /\ ~Extracted
    /\ Len(profile.contraindications) >= 2
    /\ profile.contraindications[1] # profile.contraindications[2]

\* C25: current_medications is the list of the values of the medication
\* entities, in input order, none left out, repetitions kept.
C25_MedicationsUnfiltered ==
    Aggregated => profile.current_medications = ValuesWithType(entities, "medication")

\* a profile listing the same medication several times
C25_Witness ==
    /\ Aggregated
    /\ Len(profile.current_medications) >= 3
    /\ profile.current_medications[1] = profile.current_medications[2]

\* the lab_value entities of a list
LabValuesOnly(ents) ==
    LET IsLabValue(e) == e.entity_type = "lab_value"
    IN  SelectSeq(ents, IsLabValue)

\* the first entity of a list whose value mentions a word, as a list
FirstMention(ents, word) ==
    LET Mentions(e) == Contains(e.entity_value, word)
        found == SelectSeq(ents, Mentions)
    IN  IF found = <<>> THEN <<>> ELSE <<found[1]>>

\* C27: diabetes_controlled and renal_function are those of the first
\* lab_value entity that mentions hemoglobin_a1c resp. egfr: entities of other
\* types and later lab entities have no influence.
C27_AssessmentsReadLabValuesOnly ==
    Aggregated =>
        /\ Factors.diabetes_controlled =
               AssessDiabetesControl(FirstMention(LabValuesOnly(entities),
                                                  <<"h","e","m","o","g","l","o","b","i","n","_","a","1","c">>))
        /\ Factors.renal_function =
               AssessRenalFunction(FirstMention(LabValuesOnly(entities), <<"e","g","f","r">>))

\* C28: silver_to_gold_patient leaves the entity list it is given as it is
\* (length, order, every field of every entity, the quality score included)
\* and the demographics as passed, and changes nothing of the transformer but
\* the log, to which it appends one entry.
C28_AggregationFrame ==
    [][pc' = "aggregated" =>
           /\ entities' = entities
           /\ calls'[Len(calls')].entities = entities
           /\ calls'[Len(calls')].demographics = demographics'
           /\ Len(transformation_log') = Len(transformation_log) + 1
           /\ SubSeq(transformation_log', 1, Len(transformation_log)) = transformation_log
           /\ UNCHANGED <<doc, silver_record, stats>>]_vars

\* an aggregation of several entities with known demographics
C28_Witness ==
    /\ Aggregated
    /\ Len(entities) >= 2
    /\ DOMAIN demographics = {"age", "sex", "location"}
    /\ Len(transformation_log) >= 1

\* the request handler has answered a request
Handled == pc = "handled"

\* the ids of the patients of the store
StoredPatientIds == { mock_storage.patients[i].id : i \in 1..Len(mock_storage.patients) }

\* the positions of the documents received for a patient
DocumentsOf(patient_id) ==
    { i \in 1..Len(mock_storage.bronze_documents) :
          mock_storage.bronze_documents[i].patient_id = patient_id }

\* the last of a non-empty set of positions
Latest(positions) == CHOOSE i \in positions : \A j \in positions : j <= i

\* the stored profiles of a patient
ProfilesOf(patient_id) ==
    LET OfPatient(g) == g.patient_id = patient_id
    IN  SelectSeq(mock_storage.gold_profiles, OfPatient)

\* C22: after any sequence of process_document requests the store holds at
\* most one gold profile per patient_id, and the profile of a patient is the
\* one built from the entities of the most recent document aggregated for
\* that patient alone: conditions and medications of earlier documents are
\* gone.
C22_OneProfilePerPatient ==
    \A patient_id \in RequestPatientIds :
        LET aggregated == IF patient_id \in StoredPatientIds
                          THEN DocumentsOf(patient_id) ELSE {}
            stored == ProfilesOf(patient_id)
        IN  /\ Len(stored) <= 1
            /\ Len(stored) = 1 <=> aggregated # {}
            /\ aggregated # {} =>
                   \A ents \in {ExtractEntities(
                                   mock_storage.bronze_documents[Latest(aggregated)].raw_content)} :
                   LET diagnoses == ValuesWithType(ents, "diagnosis")
                   IN  /\ stored[1].current_medications = ValuesWithType(ents, "medication")
                       /\ stored[1].primary_conditions \o stored[1].comorbidities
                              = diagnoses
                       /\ stored[1] = BuildProfile(patient_id, Aggregate(ents),
                                                   [age |-> 52, sex |-> "female",
                                                    location |-> PreferredLocation(
                                                        FindPatient(mock_storage.patients,
                                                                    patient_id))])

\* a patient whose second document, with other conditions and medications
\* than the first, has been aggregated, next to the profile of another patient
C22_Witness ==
    /\ Handled
    /\ Len(mock_storage.bronze_documents) = 3
    /\ Len(mock_storage.gold_profiles) = 2
    /\ Cardinality(DocumentsOf("P001")) = 2
    /\ LET first == Latest(DocumentsOf("P001") \ {Latest(DocumentsOf("P001"))})
           ents == ExtractEntities(mock_storage.bronze_documents[first].raw_content)
       IN  /\ ValuesWithType(ents, "medication") # <<>>
           /\ ProfilesOf("P001")[1].current_medications = <<>>
           /\ ProfilesOf("P001")[1].primary_conditions # <<>>

\* the stages of the entries a step appended to the log
AppendedStages ==
    [i \in 1..(Len(transformation_log') - Len(transformation_log)) |->
        transformation_log'[Len(transformation_log) + i].stage]

\* C30: a request for a patient_id that is not in the patient store runs the
\* extraction only: one bronze_to_silver entry is appended to the log and no
\* silver_to_gold entry, the stored gold profiles stay as they are and the
\* response has gold_profile_updated false and business_value 0; a request
\* for a patient of the store appends one entry of each stage, extraction
\* first.
C30_UnknownPatientExtractionOnly ==
    [][pc' = "handled" =>
           LET request == mock_storage'.bronze_documents[Len(mock_storage'.bronze_documents)]
               results == response'.medallion_results
           IN  /\ SubSeq(transformation_log', 1, Len(transformation_log))
                      = transformation_log
               /\ IF request.patient_id \in StoredPatientIds
                  THEN /\ AppendedStages = <<"bronze_to_silver", "silver_to_gold">>
                       /\ results.gold_profile_updated
                  ELSE /\ AppendedStages = <<"bronze_to_silver">>
                       /\ mock_storage'.gold_profiles = mock_storage.gold_profiles
                       /\ ~results.gold_profile_updated
                       /\ results.business_value = 0]_vars

\* a request for an unknown patient answered after one for a known patient,
\* whose profile is still stored
C30_Witness ==
    /\ Handled
    /\ ~(doc.patient_id \in StoredPatientIds)
    /\ ~response.medallion_results.gold_profile_updated
    /\ Len(mock_storage.gold_profiles) = 1
    /\ Len(transformation_log) = 3
    /\ transformation_log[3].stage = "bronze_to_silver"
    /\ response.medallion_results.silver_entities_extracted > 0

\* the threads that called a method which writes the log
Writers == { t \in 1..Len(threads) : threads[t].call.method # "get_pipeline_stats" }

\* those whose call is completed
CompletedWriters == { t \in Writers : threads[t].at = "returned" }

\* the positions of the log that hold the entry of a call
EntriesOf(t) ==
    { i \in 1..Len(transformation_log) :
          /\ transformation_log[i].timestamp = threads[t].log_entry.timestamp
          /\ transformation_log[i].stage =
                 (IF threads[t].call.method = "bronze_to_silver_document"
                  THEN "bronze_to_silver" ELSE "silver_to_gold")
          /\ transformation_log[i].entity_id =
                 (IF threads[t].call.method = "bronze_to_silver_document"
                  THEN threads[t].call.bronze_doc.document_id
                  ELSE threads[t].call.patient_id)
          /\ transformation_log[i].metric =
                 (IF threads[t].call.method = "bronze_to_silver_document"
                  THEN Len(threads[t].returned)
                  ELSE threads[t].returned.business_value) }

\* C23: with calls running in parallel on one transformer, in every
\* interleaving each completed call has exactly one entry in the log, with
\* its own stage, entity_id, metric and timestamp, no entry belongs to two
\* calls or to none, and the length of the log is the number of completed
\* calls.
C23_ParallelAppendsIntact ==
    /\ Len(transformation_log) = Cardinality(CompletedWriters)
    /\ \A t \in CompletedWriters : Cardinality(EntriesOf(t)) = 1
    /\ \A i \in 1..Len(transformation_log) :
           Cardinality({ t \in CompletedWriters : i \in EntriesOf(t) }) = 1

\* three calls completed, the log not in the order in which the calls built
\* their entries
C23_Witness ==
    /\ Cardinality(CompletedWriters) = 3
    /\ Len(transformation_log) = 3
    /\ transformation_log[1].timestamp > transformation_log[2].timestamp
    /\ { transformation_log[i].stage : i \in 1..3 } = {"bronze_to_silver", "silver_to_gold"}

\* the get_pipeline_stats calls that returned statistics of a non-empty log
StatsThreads ==
    { t \in 1..Len(threads) :
          /\ threads[t].call.method = "get_pipeline_stats"
          /\ threads[t].at = "returned"
          /\ threads[t].returned.total_transformations > 0 }

\* C29: the statistics a get_pipeline_stats call returns while other calls
\* append to the log are a consistent snapshot: the per-stage counts add up
\* to total_transformations, and last_transformation is the timestamp of one
\* of the entries counted in that total.
C29_StatsSnapshotConsistent ==
    \A t \in StatsThreads :
        LET result == threads[t].returned
        IN  /\ SumCounts(result.stages, DOMAIN result.stages) = result.total_transformations
            /\ \E i \in 1..result.total_transformations :
                   transformation_log[i].timestamp = result.last_transformation

=============================================================================
